---- MODULE Spec2Model ----
(***************************************************************************)
(* Model of the gitlab_instance_variable resource                          *)
(* (internal/provider/resource_gitlab_instance_variable.go).               *)
(*                                                                         *)
(* The state is the remote set of instance variables, the local resource   *)
(* data d (identity and the five schema fields), and the position of the   *)
(* handler that is running.  A handler that delegates to Read (Create,     *)
(* Update) takes two steps, one per remote request, so that another actor  *)
(* of the remote can act between the two calls.                            *)
(***************************************************************************)
EXTENDS Naturals, Sequences, FiniteSets

VARIABLES
    remote,    \* the instance variables of the GitLab instance: key -> fields
    d,         \* *schema.ResourceData: id, key, value, variable_type, protected, masked
    pc,        \* "idle"; "read" when Create/Update is about to delegate to Read;
               \* "crashed" once a handler has panicked
    op,        \* the handler that is running, or that returned last
    diag,      \* what that handler returned: "none" (nil), "error", "panic"
    conf,      \* the configuration given to the last Create or Update
    pre,       \* identity and key of d when the handler was entered
    calls,     \* the remote requests the handler has issued, in order
    sent,      \* the handler's mutating request: call, key in the path, options
    merr,      \* result of the handler's mutating call: "none", "ok", "err"
    resp,      \* answer to the handler's get call: "none", "200", "404", "500", "nil"
    track,     \* "Create"/"Update" from that handler's remote call on, while what it
               \* wrote stands: until the handler returns an error, the next Create,
               \* Update, Delete or Import starts, or another actor writes
    deleted,   \* identities whose Delete returned nil, with no create of that key since
    imported,  \* d comes from Import and has not been refreshed by a Read yet
    gone,      \* identity the previous handler, a Read answered 404, has cleared
    rep        \* the Read that returned last repeated a Read answered 404

vars == <<remote, d, pc, op, diag, conf, pre, calls, sent, merr, resp,
          track, deleted, imported, gone, rep>>

----------------------------------------------------------------------------
(* Domains *)

Keys == {"A", "B"}

NumValues == 2

ValueName(i) == <<"s1", "s2", "s3", "s4">>[i]

Values == {ValueName(i) : i \in 1..NumValues}

VariableTypes == {"env_var", "file"}

Optional == {"variable_type", "protected", "masked"}

\* outcome of one HTTP exchange apart from the remote's own answer:
\* "none" the remote answers, "api" an error status other than 404,
\* "transport" no HTTP response at all
Faults == {"none", "api", "transport"}

\* fields of the remote object other than its key
Fields == [value : Values, variable_type : VariableTypes,
           protected : BOOLEAN, masked : BOOLEAN]

\* a configuration block: omit lists the optional attributes left out
Configs == {c \in [key : Keys, value : Values, variable_type : VariableTypes \cup {""},
                   protected : BOOLEAN, masked : BOOLEAN, omit : SUBSET Optional] :
              /\ (c.variable_type = "") = ("variable_type" \in c.omit)
              /\ ("protected" \in c.omit) => ~c.protected
              /\ ("masked" \in c.omit) => ~c.masked}

\* an attribute left out of the configuration reaches Update as its default, as
\* it reaches Create: Update is given the configurations that spell every attribute
UpdateConfigs == {c \in Configs : c.omit = {}}

\* what the provider and the other actors write where both act on the remote:
\* plain unmasked variables of any value, protected or not
SharedFields == {f \in Fields : f.variable_type = "env_var" /\ ~f.masked}

SharedConfigs == {c \in UpdateConfigs : c.variable_type = "env_var" /\ ~c.masked}

NoState == [id |-> "", key |-> "", value |-> "", variable_type |-> "",
            protected |-> FALSE, masked |-> FALSE]

NoConf == [key |-> "", value |-> "", variable_type |-> "",
           protected |-> FALSE, masked |-> FALSE, omit |-> {}]

NoRequest == [call |-> "none", key |-> "", options |-> <<>>]

NoPre == [id |-> "", key |-> ""]

\* what is remembered of a resource data across the handler
Entry(dd) == [id |-> dd.id, key |-> dd.key]

----------------------------------------------------------------------------
(* Schema *)

DefaultVariableType == "env_var"

\* a wrong schema default
DefaultProtectedTrue == TRUE

DefaultProtected == FALSE

DefaultMasked == FALSE

\* d.Get on the planned configuration: an omitted optional attribute reads
\* as its schema Default
GetVariableType(c) == IF "variable_type" \in c.omit THEN DefaultVariableType
                      ELSE c.variable_type

GetProtected(c) == IF "protected" \in c.omit THEN DefaultProtected ELSE c.protected

GetMasked(c) == IF "masked" \in c.omit THEN DefaultMasked ELSE c.masked

\* the resource data a handler receives for configuration c and identity id
Planned(id, c) == [id |-> id, key |-> c.key, value |-> c.value,
                   variable_type |-> GetVariableType(c),
                   protected |-> GetProtected(c), masked |-> GetMasked(c)]

\* the four mutable fields of a resource data or remote object
Four(r) == [value |-> r.value, variable_type |-> r.variable_type,
            protected |-> r.protected, masked |-> r.masked]

\* *gitlab.VariableTypeValue: a one-element set, or the empty set for nil
stringToVariableType(s) == IF s = "env_var" THEN {"env_var"}
                           ELSE IF s = "file" THEN {"file"}
                           ELSE {}

\* diag.Diagnostics of the augmentation helper: always an error
augmentVariableClientError(dd, err) == "error"

----------------------------------------------------------------------------
(* The remote instance-variable API (client.InstanceVariables) *)

Without(rem, key) == [k \in DOMAIN rem \ {key} |-> rem[k]]

With(rem, key, f) == [k \in DOMAIN rem \cup {key} |-> IF k = key THEN f ELSE rem[k]]

\* the value a *VariableTypeValue points to; the remote's default when it is nil
Deref(p) == IF p = {} THEN "env_var" ELSE CHOOSE x \in p : TRUE

\* POST admin/ci/variables: an error when the exchange fails or the key is taken
CreateVariable(rem, options, fault) ==
    IF fault # "none" \/ options.key \in DOMAIN rem
    THEN [err |-> TRUE, remote |-> rem]
    ELSE [err |-> FALSE,
          remote |-> With(rem, options.key,
                          [value |-> options.value,
                           variable_type |-> Deref(options.variable_type),
                           protected |-> options.protected,
                           masked |-> options.masked])]

\* GET admin/ci/variables/:key.  resp is the status of the HTTP response, "nil"
\* when there is no response; v is the decoded object
GetVariable(rem, key, fault) ==
    IF fault = "transport" THEN [err |-> TRUE, resp |-> "nil", v |-> NoState]
    ELSE IF fault = "api" THEN [err |-> TRUE, resp |-> "500", v |-> NoState]
    ELSE IF key \notin DOMAIN rem THEN [err |-> TRUE, resp |-> "404", v |-> NoState]
    ELSE [err |-> FALSE, resp |-> "200",
          v |-> [id |-> "", key |-> key, value |-> rem[key].value,
                 variable_type |-> rem[key].variable_type,
                 protected |-> rem[key].protected, masked |-> rem[key].masked]]

\* PUT admin/ci/variables/:key: the key is in the path, the options carry the rest
UpdateVariable(rem, key, options, fault) ==
    IF fault # "none" \/ key \notin DOMAIN rem
    THEN [err |-> TRUE, remote |-> rem]
    ELSE [err |-> FALSE,
          remote |-> With(rem, key,
                          [value |-> options.value,
                           variable_type |-> IF options.variable_type = {}
                                             THEN rem[key].variable_type
                                             ELSE Deref(options.variable_type),
                           protected |-> options.protected,
                           masked |-> options.masked])]

\* DELETE admin/ci/variables/:key
RemoveVariable(rem, key, fault) ==
    IF fault # "none" \/ key \notin DOMAIN rem
    THEN [err |-> TRUE, remote |-> rem]
    ELSE [err |-> FALSE, remote |-> Without(rem, key)]

----------------------------------------------------------------------------
(* The handlers *)

SetId(dd, id) == [dd EXCEPT !.id = id]

\* what the framework stores when a handler returns: no state at all when the
\* identity is empty
Stored(dd) == IF dd.id = "" THEN NoState ELSE dd

\* the resource is in the stored state: it has an identity and is no
\* unrefreshed import
Managed == d.id # "" /\ ~imported

\* the options with Protected and Masked taken from each other's attribute
CreateOptionsSwapped(dd) == [key |-> dd.key, value |-> dd.value,
                             variable_type |-> stringToVariableType(dd.variable_type),
                             protected |-> dd.masked, masked |-> dd.protected]

\* lines 73-79
CreateOptions(dd) == [key |-> dd.key, value |-> dd.value,
                      variable_type |-> stringToVariableType(dd.variable_type),
                      protected |-> dd.protected, masked |-> dd.masked]

\* the options of Create, Key included, given to the update call
UpdateOptionsWithKey(dd) == [key |-> dd.key, value |-> dd.value,
                             variable_type |-> stringToVariableType(dd.variable_type),
                             protected |-> dd.protected, masked |-> dd.masked]

\* lines 126-131
UpdateOptions(dd) == [value |-> dd.value, protected |-> dd.protected,
                      variable_type |-> stringToVariableType(dd.variable_type),
                      masked |-> dd.masked]

\* the key Delete hands to the removal call
DeleteKey(dd) == dd.key

\* Create without its d.SetId(key)
CreatedIdUnset(key) == ""

\* the identity Create sets once the remote create call succeeded
CreatedId(key) == key

\* the error of the mutating call ignored
AfterCallGoesOn(r) == "read"

\* the handler returning without its Read
AfterCallReturns(r) == "idle"

\* after the mutating call of Create or Update: return the error, or go on to Read
AfterCall(r) == IF r.err THEN "idle" ELSE "read"

\* the error of the removal call ignored
DeleteReturnNil(dd, r) == "none"

\* what Delete returns after the removal call
DeleteReturn(dd, r) == IF r.err THEN augmentVariableClientError(dd, r.err) ELSE "none"

\* not-found without d.SetId("")
NotFoundKeepsId(dd) == [d |-> dd, diag |-> "none"]

\* Read on not-found: d.SetId(""), return nil
NotFound(dd) == [d |-> SetId(dd, ""), diag |-> "none"]

\* Read on success without d.Set("key", v.Key)
FoundWithoutKey(dd, v) == [d |-> [dd EXCEPT !.value = v.value,
                                            !.variable_type = v.variable_type,
                                            !.protected = v.protected,
                                            !.masked = v.masked],
                           diag |-> "none"]

\* Read on success: the five d.Set calls, return nil
Found(dd, v) == [d |-> [dd EXCEPT !.key = v.key, !.value = v.value,
                                  !.variable_type = v.variable_type,
                                  !.protected = v.protected, !.masked = v.masked],
                 diag |-> "none"]

\* resourceGitlabInstanceVariableRead after the get call returned g.
\* resp.StatusCode is evaluated whenever err # nil: with no response (resp = nil)
\* that is a nil pointer dereference, and the handler panics.
ReadResult(dd, g) ==
    IF g.err
    THEN IF g.resp = "nil" THEN [d |-> dd, diag |-> "panic"]
         ELSE IF g.resp = "404" THEN NotFound(dd)
         ELSE [d |-> dd, diag |-> augmentVariableClientError(dd, g.err)]
    ELSE Found(dd, g.v)

\* resourceGitlabInstanceVariableCreate up to the return or the call of Read
Create(c, fault) ==
    /\ pc = "idle"
    /\ ~Managed
    /\ LET dd == Planned("", c)
           options == CreateOptions(dd)
           r == CreateVariable(remote, options, fault)
       IN /\ remote' = r.remote
          /\ sent' = [call |-> "create", key |-> "", options |-> options]
          /\ calls' = <<"create">>
          /\ merr' = IF r.err THEN "err" ELSE "ok"
          /\ d' = IF r.err THEN Stored(dd) ELSE SetId(dd, CreatedId(dd.key))
          /\ diag' = IF r.err THEN augmentVariableClientError(dd, r.err) ELSE "none"
          /\ pc' = AfterCall(r)
          /\ deleted' = IF r.err THEN deleted ELSE deleted \ {dd.key}
          /\ track' = IF r.err THEN "none" ELSE "Create"
    /\ op' = "Create"
    /\ conf' = c
    /\ pre' = NoPre
    /\ resp' = "none"
    /\ imported' = FALSE
    /\ gone' = ""
    /\ rep' = FALSE

\* resourceGitlabInstanceVariableUpdate up to the return or the call of Read.
\* key is ForceNew: the planned key is the stored key, and the handler runs
\* only when another attribute differs.
Update(c, fault) ==
    /\ pc = "idle"
    /\ Managed
    /\ c.key = d.key
    /\ Four(Planned(d.id, c)) # Four(d)
    /\ LET dd == Planned(d.id, c)
           options == UpdateOptions(dd)
           r == UpdateVariable(remote, dd.key, options, fault)
       IN /\ remote' = r.remote
          /\ sent' = [call |-> "update", key |-> dd.key, options |-> options]
          /\ calls' = <<"update">>
          /\ merr' = IF r.err THEN "err" ELSE "ok"
          /\ d' = dd
          /\ diag' = IF r.err THEN augmentVariableClientError(dd, r.err) ELSE "none"
          /\ pc' = AfterCall(r)
          /\ track' = IF r.err THEN "none" ELSE "Update"
    /\ op' = "Update"
    /\ conf' = c
    /\ pre' = Entry(d)
    /\ resp' = "none"
    /\ gone' = ""
    /\ rep' = FALSE
    /\ UNCHANGED <<deleted, imported>>

\* resourceGitlabInstanceVariableDelete; the framework drops the stored state
\* when the handler returns nil
Delete(fault) ==
    /\ pc = "idle"
    /\ Managed
    /\ LET key == DeleteKey(d)
           r == RemoveVariable(remote, key, fault)
       IN /\ remote' = r.remote
          /\ sent' = [call |-> "remove", key |-> key, options |-> <<>>]
          /\ calls' = <<"remove">>
          /\ merr' = IF r.err THEN "err" ELSE "ok"
          /\ diag' = DeleteReturn(d, r)
          /\ d' = IF DeleteReturn(d, r) = "none" THEN NoState ELSE d
          /\ deleted' = IF DeleteReturn(d, r) = "none" THEN deleted \cup {d.id}
                        ELSE deleted
    /\ op' = "Delete"
    /\ pre' = Entry(d)
    /\ conf' = NoConf
    /\ resp' = "none"
    /\ track' = "none"
    /\ gone' = ""
    /\ rep' = FALSE
    /\ UNCHANGED <<pc, imported>>

\* resourceGitlabInstanceVariableRead called by the framework (refresh, or
\* the read that follows an import)
Read(fault) ==
    /\ pc = "idle"
    /\ d.id # ""
    /\ LET g == GetVariable(remote, d.id, fault)
           r == ReadResult(d, g)
       IN /\ d' = Stored(r.d)
          /\ diag' = r.diag
          /\ resp' = g.resp
          /\ pc' = IF r.diag = "panic" THEN "crashed" ELSE "idle"
          /\ imported' = (imported /\ g.err /\ g.resp # "404")
          /\ rep' = (g.resp = "404" /\ gone = d.id)
          /\ gone' = IF g.resp = "404" THEN d.id ELSE ""
    /\ op' = "Read"
    /\ pre' = Entry(d)
    /\ calls' = <<"get">>
    /\ sent' = NoRequest
    /\ merr' = "none"
    /\ conf' = IF track = "none" THEN NoConf ELSE conf
    /\ UNCHANGED <<remote, track, deleted>>

\* resourceGitlabInstanceVariableRead called by Create or Update (lines 89, 138)
FollowUpRead(fault) ==
    /\ pc = "read"
    /\ LET g == GetVariable(remote, d.id, fault)
           r == ReadResult(d, g)
       IN /\ d' = Stored(r.d)
          /\ diag' = r.diag
          /\ resp' = g.resp
          /\ pc' = IF r.diag = "panic" THEN "crashed" ELSE "idle"
          /\ track' = IF r.diag = "none" THEN track ELSE "none"
    /\ calls' = Append(calls, "get")
    /\ UNCHANGED <<remote, op, conf, pre, sent, merr, deleted, imported, gone, rep>>

\* schema.ImportStatePassthroughContext: the external identifier becomes the
\* identity; nothing else is known until the framework's Read
Import(id) ==
    /\ pc = "idle"
    /\ ~Managed
    /\ d' = SetId(NoState, id)
    /\ imported' = TRUE
    /\ op' = "Import"
    /\ diag' = "none"
    /\ pre' = NoPre
    /\ conf' = NoConf
    /\ calls' = <<>>
    /\ sent' = NoRequest
    /\ merr' = "none"
    /\ resp' = "none"
    /\ track' = "none"
    /\ rep' = FALSE
    /\ UNCHANGED <<remote, pc, deleted, gone>>

----------------------------------------------------------------------------
(* Other actors of the remote *)

\* the variable is removed out of band
OtherRemove(k) ==
    /\ pc # "crashed"
    /\ k \in DOMAIN remote
    /\ remote' = Without(remote, k)
    /\ track' = "none"
    /\ gone' = ""
    /\ UNCHANGED <<d, pc, op, diag, conf, pre, calls, sent, merr, resp, deleted,
                   imported, rep>>

\* the variable is created or changed out of band
OtherSet(k, f) ==
    /\ pc # "crashed"
    /\ IF k \in DOMAIN remote THEN remote[k] # f ELSE TRUE
    /\ remote' = With(remote, k, f)
    /\ deleted' = deleted \ {k}
    /\ track' = "none"
    /\ gone' = ""
    /\ UNCHANGED <<d, pc, op, diag, conf, pre, calls, sent, merr, resp, imported, rep>>

----------------------------------------------------------------------------

\* what the instance may hold when the provider starts: nothing, or one plain
\* variable, protected or not, that another actor wrote
Instances == {<<>>} \cup {[k \in {key} |-> f] :
                             key \in Keys,
                             f \in {g \in SharedFields : g.value = ValueName(1)}}

Init ==
    /\ remote \in Instances
    /\ d = NoState
    /\ pc = "idle"
    /\ op = "none"
    /\ diag = "none"
    /\ conf = NoConf
    /\ pre = NoPre
    /\ calls = <<>>
    /\ sent = NoRequest
    /\ merr = "none"
    /\ resp = "none"
    /\ track = "none"
    /\ deleted = {}
    /\ imported = FALSE
    /\ gone = ""
    /\ rep = FALSE

\* the provider alone with the remote
Next ==
    \/ \E c \in Configs, fault \in Faults : Create(c, fault)
    \/ \E c \in UpdateConfigs, fault \in Faults : Update(c, fault)
    \/ \E fault \in Faults : Delete(fault)
    \/ \E fault \in Faults : Read(fault)
    \/ \E fault \in Faults : FollowUpRead(fault)
    \/ \E id \in Keys : Import(id)

Spec == Init /\ [][Next]_vars

\* the provider and other actors of the same remote
NextShared ==
    \/ \E c \in SharedConfigs, fault \in Faults : Create(c, fault)
    \/ \E c \in SharedConfigs, fault \in Faults : Update(c, fault)
    \/ \E fault \in Faults : Delete(fault)
    \/ \E fault \in Faults : Read(fault)
    \/ \E fault \in Faults : FollowUpRead(fault)
    \/ \E id \in Keys : Import(id)
    \/ \E k \in Keys : OtherRemove(k)
    \/ \E k \in Keys, f \in SharedFields : OtherSet(k, f)

SpecShared == Init /\ [][NextShared]_vars

----------------------------------------------------------------------------
(* Properties *)

\* the five values a configuration gives, an omitted variable_type read as env_var
\* (an omitted protected or masked is FALSE in Configs)
Given(c) == [key |-> c.key, value |-> c.value,
             variable_type |-> IF c.variable_type = "" THEN "env_var"
                               ELSE c.variable_type,
             protected |-> c.protected, masked |-> c.masked]

Five(r) == [key |-> r.key, value |-> r.value, variable_type |-> r.variable_type,
            protected |-> r.protected, masked |-> r.masked]

Handlers == {"Create", "Read", "Update", "Delete"}

\* the last handler has returned or panicked
Ended == pc # "read"

\* C1: Create-then-Read round trip.  Once Create has returned nil on a remote
\* that did not hold the key, and while nothing else writes to the remote
\* (track = "Create"), the local state holds the five values given to Create
\* and the key as its identity, after Create and after every later Read, and
\* the remote object under that key holds the same values.
CreateReadRoundTrip ==
    (track = "Create" /\ Ended) =>
        /\ d.id = conf.key
        /\ Five(d) = Given(conf)
        /\ conf.key \in DOMAIN remote
        /\ remote[conf.key] = Four(Given(conf))

\* a Read later than the Create has returned, for a file variable that is
\* protected and masked
CreateReadRoundTripWitness ==
    /\ track = "Create"
    /\ op = "Read"
    /\ diag = "none"
    /\ resp = "200"
    /\ Given(conf) = [key |-> "B", value |-> "s2", variable_type |-> "file",
                      protected |-> TRUE, masked |-> TRUE]

\* C2: Read after an out-of-band delete.  Whenever the get call of a Read is
\* answered 404, the Read has emptied the local identity and returned nil,
\* the first time and every time the Read is repeated.
ReadNotFoundClearsIdentity ==
    (resp = "404") => (pc = "idle" /\ d.id = "" /\ diag = "none")

\* a Read answered 404 that repeats a Read answered 404 for the same identity
ReadNotFoundWitness ==
    /\ rep
    /\ op = "Read"
    /\ resp = "404"
    /\ pre.id = "A"
    /\ d.id = ""

\* C3: every failure of the get call other than not-found (a status other
\* than 404, or no HTTP response at all) makes Read return an error
\* diagnostic, terminate normally and leave the local state unchanged.
ReadFailureIsDiagnosed ==
    [][((\E fault \in Faults : Read(fault) \/ FollowUpRead(fault))
          /\ resp' \in {"500", "nil"})
       => (diag' = "error" /\ pc' = "idle" /\ d' = d)]_vars

\* C4: Update preserves key.  The update request names the stored key in its
\* path and carries value, variable_type, protected and masked only; the
\* remote keeps the same keys; the local key and identity after the Update
\* are those before it; and once the Update's call succeeded and its Read
\* returned, the local value, variable_type, protected and masked are the
\* values submitted.
UpdatePreservesKey ==
    /\ [](op = "Update" =>
            /\ sent.call = "update"
            /\ sent.key = pre.key
            /\ DOMAIN sent.options = {"value", "variable_type", "protected", "masked"}
            /\ sent.options.value = conf.value
            /\ sent.options.variable_type = {conf.variable_type}
            /\ sent.options.protected = conf.protected
            /\ sent.options.masked = conf.masked
            /\ d.key = pre.key
            /\ d.id = pre.id
            /\ (merr = "ok" /\ pc = "idle" => Four(d) = Four(Given(conf)))
            /\ (track = "Update" /\ Ended => /\ pre.key \in DOMAIN remote
                                            /\ remote[pre.key] = Four(Given(conf))))
    /\ [][(pc = "idle" /\ op' = "Update" /\ calls' = <<"update">>)
          => /\ DOMAIN remote' = DOMAIN remote
             /\ \A k \in DOMAIN remote \ {d.key} : remote'[k] = remote[k]]_vars

\* an Update that changed the remote object and whose Read returned nil
UpdatePreservesKeyWitness ==
    /\ op = "Update"
    /\ track = "Update"
    /\ pc = "idle"
    /\ resp = "200"
    /\ pre.key = "B"
    /\ Four(d) = [value |-> "s2", variable_type |-> "file",
                  protected |-> TRUE, masked |-> FALSE]

\* C5: Delete-then-Read.  After a Delete of identity k that returned nil, and
\* until k is created again, the remote holds no object k, and a Read with
\* identity k whose get call is answered by the remote is answered 404,
\* empties the identity and returns nil.
DeleteThenRead ==
    /\ \A k \in deleted : k \notin DOMAIN remote
    /\ (op = "Read" /\ pre.id \in deleted /\ resp \notin {"500", "nil"})
           => (resp = "404" /\ pc = "idle" /\ d.id = "" /\ diag = "none")

\* a Read with the identity a Delete has removed
DeleteThenReadWitness ==
    /\ op = "Read"
    /\ pre.id = "B"
    /\ "B" \in deleted
    /\ resp = "404"
    /\ d.id = ""

\* C6: when the remote call of Create, Update or Delete returns an error, the
\* handler returns an error diagnostic after that one request, calls no Read,
\* and the local identity is what it was before (unset for Create).
MutatingErrorReturns ==
    (merr = "err") =>
        /\ op \in {"Create", "Update", "Delete"}
        /\ pc = "idle"
        /\ diag = "error"
        /\ Len(calls) = 1
        /\ resp = "none"
        /\ d.id = pre.id
        /\ (op = "Create" => d.id = "")

\* an Update whose remote call failed
MutatingErrorWitness ==
    /\ merr = "err"
    /\ op = "Update"
    /\ d.id = "A"
    /\ calls = <<"update">>

\* C7 as stated: every handler issues exactly one request from its call to
\* its return.
OneRequestPerOperation ==
    (op \in Handlers /\ Ended) => Len(calls) = 1

\* C7 amended: Read issues one get and Delete one remove; Create and Update
\* issue their mutating request alone when it fails, and the mutating request
\* followed by one get when it succeeds.
RequestsPerOperation ==
    (op \in Handlers /\ Ended) =>
        calls = CASE op = "Read" -> <<"get">>
                  [] op = "Delete" -> <<"remove">>
                  [] op = "Create" -> IF merr = "err" THEN <<"create">>
                                      ELSE <<"create", "get">>
                  [] op = "Update" -> IF merr = "err" THEN <<"update">>
                                      ELSE <<"update", "get">>

\* a Create that returned nil after two requests
RequestsPerOperationWitness ==
    /\ op = "Create"
    /\ pc = "idle"
    /\ diag = "none"
    /\ calls = <<"create", "get">>

\* C8: default values.  For every set of optional attributes the configuration
\* omits, the create request carries env_var, FALSE, FALSE for the omitted
\* ones and the configured values for the others, and so does the local state
\* once Create has returned nil.
DefaultsOnCreate ==
    (op = "Create") =>
        /\ sent.call = "create"
        /\ sent.options.variable_type =
               IF "variable_type" \in conf.omit THEN {"env_var"}
               ELSE {conf.variable_type}
        /\ sent.options.protected =
               IF "protected" \in conf.omit THEN FALSE ELSE conf.protected
        /\ sent.options.masked =
               IF "masked" \in conf.omit THEN FALSE ELSE conf.masked
        /\ (track = "Create" /\ pc = "idle") =>
              /\ d.variable_type = IF "variable_type" \in conf.omit THEN "env_var"
                                   ELSE conf.variable_type
              /\ d.protected = IF "protected" \in conf.omit THEN FALSE
                               ELSE conf.protected
              /\ d.masked = IF "masked" \in conf.omit THEN FALSE ELSE conf.masked

\* a Create that returned nil for a configuration that omits variable_type and
\* masked and sets protected
DefaultsOnCreateWitness ==
    /\ op = "Create"
    /\ track = "Create"
    /\ pc = "idle"
    /\ conf.omit = {"variable_type", "masked"}
    /\ conf.protected
    /\ d.variable_type = "env_var"
    /\ d.protected
    /\ ~d.masked

\* C9: Delete's removal call is keyed by the identifier.  In every state from
\* which Delete can be invoked (the resource is in the stored state, however
\* Create, Import, Read and Update brought it there) the local key equals the
\* local identity, and the key every Delete passed to the removal call is the
\* identity it was entered with.
DeleteKeyedByIdentity ==
    /\ Managed => d.key = d.id
    /\ (op = "Delete") => (sent.call = "remove" /\ sent.key = pre.id)

\* a Delete that removed the variable B
DeleteKeyedByIdentityWitness ==
    /\ op = "Delete"
    /\ merr = "ok"
    /\ pre.id = "B"
    /\ sent.key = "B"
    /\ "B" \notin DOMAIN remote

\* C10 as stated: whenever Create returns nil the local identity is the
\* configured key, also when another actor removes the variable between the
\* create call and the Read.
CreateReturnsIdentity ==
    (op = "Create" /\ pc = "idle" /\ diag = "none") =>
        (d.id # "" /\ d.id = conf.key)

\* C10 amended: whenever Create returns nil, the local identity is the
\* configured key if its Read found the variable, which it does when no other
\* actor wrote in between, and is empty if its Read was answered 404.
CreateIdentityUnlessGone ==
    (op = "Create" /\ pc = "idle" /\ diag = "none") =>
        /\ resp \in {"200", "404"}
        /\ (resp = "200" => d.id = conf.key)
        /\ (resp = "404" => d.id = "")
        /\ (track = "Create" => resp = "200")

\* a Create that returned nil although another actor removed the variable
CreateIdentityUnlessGoneWitness ==
    /\ op = "Create"
    /\ pc = "idle"
    /\ diag = "none"
    /\ resp = "404"
    /\ d.id = ""
    /\ conf.key \notin DOMAIN remote

====
